---------------------------- MODULE Spec2Model ----------------------------
(***************************************************************************)
(* Model of the application lifecycle controller                           *)
(* packages/umbreld/source/modules/apps/app.ts (class App).                *)
(*                                                                         *)
(* Every asynchronous lifecycle method is a sequence of steps separated by *)
(* its awaits.  An invocation is carried by a task; a task's pc names the  *)
(* awaited external step that is pending.  A step that completes either    *)
(* succeeds (the continuation runs up to the next await) or throws (the    *)
(* method rejects).  Tasks interleave at the awaits, as promises do on one *)
(* event loop; nothing in the class serialises two operations of a         *)
(* controller.                                                             *)
(***************************************************************************)
EXTENDS Integers, Sequences, FiniteSets, TLC

\* ------------------------------------------------------------------ bounds
MaxCalls == 2                    \* invocations of lifecycle methods per run

Tasks == {"t1", "t2"}            \* invocations that may be in flight together
AppIds == {"a1", "a2"}           \* controllers (this.id)
OtherId == "a3"                  \* an installed application nobody operates on
Services == <<"web", "db">>      \* Object.keys(compose.services), in order
ServiceNames == {Services[i] : i \in 1..Len(Services)}

None == "<none>"                 \* undefined / absent

\* ------------------------------------------------------------------- state
VARIABLES
    state,       \* state[a]: App.state of the controller of application a
    dirExists,   \* dirExists[a]: the dataDirectory of a exists
    files,       \* files[a]: content of <dataDirectory>/docker-compose.yml
    apps,        \* store key 'apps': the persisted list of installed ids
    lock,        \* holder of the store's write lock, or None
    op,          \* op[t]: the method the task runs
    target,      \* target[t]: this.id of the controller it runs on
    pc,          \* pc[t]: the awaited step that is pending
    log,         \* log[t]: the external steps of the invocation, in order
    compose,     \* compose[t]: the local `compose` of update (line 110)
    patchCompose,\* patchCompose[t]: the local `compose` of patchComposeServices
    oldImages,   \* oldImages[t]: the local `oldImages` of update
    rmiArgs,     \* rmiArgs[t]: the arguments `docker rmi` was called with
    localApps,   \* localApps[t]: the local `apps` of the uninstall callback
    lastWriter,  \* lastWriter[a]: the task that assigned state[a] last
    calls,       \* invocations made so far
    patchId,     \* the this.id of a controller whose patcher is applied on its own
    patchRuns,   \* the descriptor given to the patcher, then the one after each run
    appId,       \* the appId argument of `new App(umbreld, appId)`
    ctor,        \* the object under construction and what the constructor did
    stdout,      \* the lines `docker stats` printed
    total,       \* systemInformation.mem().total
    usage        \* what getMemoryUsage / getCpuUsage returned or threw

\* the state of the lifecycle methods
lifecycle == <<state, dirExists, files, apps, lock, op, target, pc, log, compose,
               patchCompose, oldImages, rmiArgs, localApps, lastWriter, calls>>
\* the state of the patcher, the constructor and the usage queries taken alone
aux == <<patchId, patchRuns, appId, ctor, stdout, total, usage>>

vars == <<lifecycle, aux>>

\* --------------------------------------------------------------- AppState
AppState == {"unknown", "installing", "starting", "running", "stopping",
             "stopped", "restarting", "uninstalling", "updating", "ready"}

Ops == {"install", "update", "start", "stop", "restart", "uninstall"}

\* the value each method assigns to this.state before its first await
Transient(o) ==
    CASE o = "install"   -> "installing"
      [] o = "update"    -> "updating"
      [] o = "start"     -> "starting"
      [] o = "stop"      -> "stopping"
      [] o = "restart"   -> "restarting"
      [] o = "uninstall" -> "uninstalling"

\* the value each method but uninstall assigns to this.state before it
\* returns true (lines 96, 126, 135, 143, 152)
Completion(o) == IF o = "stop" THEN "stopped" ELSE "ready"

\* ---------------------------------------------------- compose descriptors
Service(img, cn) == [image |-> img, container_name |-> cn]

\* the name scheme of recent docker-compose versions
ContainerNameDashes(id, serviceName) == id \o "-" \o serviceName \o "-1"

\* `${this.id}_${serviceName}_1`
ContainerName(id, serviceName) == id \o "_" \o serviceName \o "_1"

\* !x of JavaScript for an optional string
Falsy(x) == x = None \/ x = ""

\* the descriptors an application ships with (old and new release)
ShippedV1 == [s \in ServiceNames |->
                 IF s = "web" THEN Service("web:1", None) ELSE Service("db:1", "custom_db")]
ShippedV2 == [s \in ServiceNames |->
                 IF s = "web" THEN Service("web:2", None) ELSE Service(None, "")]

\* a patcher that puts the application's id in front of an explicit name
PatchServicesPrefix(id, c) ==
    [s \in DOMAIN c |->
        IF Falsy(c[s].container_name)
        THEN [c[s] EXCEPT !.container_name = id \o "_" \o s \o "_1"]
        ELSE [c[s] EXCEPT !.container_name = id \o "_" \o @]]

\* a patcher without the test of line 80
PatchServicesAlways(id, c) ==
    [s \in DOMAIN c |-> [c[s] EXCEPT !.container_name = id \o "_" \o s \o "_1"]]

\* patchComposeServices, lines 79-83: the loop over the services
PatchServices(id, c) ==
    [s \in DOMAIN c |->
        IF Falsy(c[s].container_name)
        THEN [c[s] EXCEPT !.container_name = ContainerName(id, s)]
        ELSE c[s]]

RECURSIVE ImagesFrom(_, _)
ImagesFrom(c, i) ==
    IF i > Len(Services) THEN <<>>
    ELSE IF Falsy(c[Services[i]].image) THEN ImagesFrom(c, i + 1)
    ELSE <<c[Services[i]].image>> \o ImagesFrom(c, i + 1)

\* update, lines 111-113: Object.values(services).map(image).filter(Boolean)
OldImagesOf(c) == ImagesFrom(c, 1)

\* uninstall, line 164: apps.filter((appId) => appId !== this.id)
FilterOut(list, id) == SelectSeq(list, LAMBDA x : x # id)

Range(s) == {s[i] : i \in 1..Len(s)}

\* --------------------------------------------------------------------- aux
\* no patcher run, no construction and no usage query taken alone
PatcherIdle == patchId = None /\ patchRuns = <<>>
CtorIdle == appId = <<>> /\ ctor = [pc |-> "idle"]
UsageIdle == stdout = <<>> /\ total = 0 /\ usage = [pc |-> "idle"]

\* -------------------------------------------------------------------- Init
InitialApps == <<"a1", "a3", "a2">>

LifecycleInit ==
    /\ state = [a \in AppIds |-> "unknown"]
    /\ dirExists = [a \in AppIds |-> TRUE]
    /\ files = [a \in AppIds |-> ShippedV1]
    /\ apps = InitialApps
    /\ lock = None
    /\ op = [t \in Tasks |-> None]
    /\ target = [t \in Tasks |-> None]
    /\ pc = [t \in Tasks |-> "idle"]
    /\ log = [t \in Tasks |-> <<>>]
    /\ compose = [t \in Tasks |-> <<>>]
    /\ patchCompose = [t \in Tasks |-> <<>>]
    /\ oldImages = [t \in Tasks |-> <<>>]
    /\ rmiArgs = [t \in Tasks |-> <<>>]
    /\ localApps = [t \in Tasks |-> <<>>]
    /\ lastWriter = [a \in AppIds |-> None]
    /\ calls = 0

Init == LifecycleInit /\ PatcherIdle /\ CtorIdle /\ UsageIdle

\* ----------------------------------------------------------------- helpers
Call(step) == <<"call", step>>
Ok(step) == <<"ok", step>>
Fail(step) == <<"fail", step>>

\* the first awaited step of each method
FirstStep(o) ==
    CASE o = "install"   -> "readCompose"
      [] o = "update"    -> "readCompose"
      [] o = "start"     -> "start"
      [] o = "stop"      -> "stop"
      [] o = "restart"   -> "stop"
      [] o = "uninstall" -> "stop"

FirstPc(o) ==
    CASE o = "install"   -> "patchRead"
      [] o = "update"    -> "updateRead"
      [] o = "start"     -> "start"
      [] o = "stop"      -> "stop"
      [] o = "restart"   -> "restartStop"
      [] o = "uninstall" -> "uninstallStop"

\* the task moves to pending step p, having completed step `done` and called `next`
Advance(t, p, done, next) ==
    /\ pc' = [pc EXCEPT ![t] = p]
    /\ log' = [log EXCEPT ![t] = @ \o <<Ok(done), Call(next)>>]

\* the awaited step throws: the method rejects, nothing else of it runs
Throw(t, step) ==
    /\ pc' = [pc EXCEPT ![t] = "error"]
    /\ log' = [log EXCEPT ![t] = Append(@, Fail(step))]

\* the method returns true
Return(t, step) ==
    /\ pc' = [pc EXCEPT ![t] = "done"]
    /\ log' = [log EXCEPT ![t] = Append(@, Ok(step))]

\* a flag shared by all controllers (a static field)
SetStateAll(t, v) ==
    /\ state' = [a \in AppIds |-> v]
    /\ lastWriter' = [lastWriter EXCEPT ![target[t]] = t]

\* this.state = v
SetState(t, v) ==
    /\ state' = [state EXCEPT ![target[t]] = v]
    /\ lastWriter' = [lastWriter EXCEPT ![target[t]] = t]

\* ------------------------------------------------------------- invocation
\* install/update/start/stop/restart/uninstall up to their first await:
\* this.state = <transient>, then the first external step is called.
Invoke(t, o, a) ==
    /\ pc[t] \in {"idle", "done", "error"}
    /\ calls < MaxCalls
    /\ calls' = calls + 1
    /\ op' = [op EXCEPT ![t] = o]
    /\ target' = [target EXCEPT ![t] = a]
    /\ state' = [state EXCEPT ![a] = Transient(o)]
    /\ lastWriter' = [lastWriter EXCEPT ![a] = t]
    /\ pc' = [pc EXCEPT ![t] = FirstPc(o)]
    /\ log' = [log EXCEPT ![t] = <<Call(FirstStep(o))>>]
    /\ compose' = [compose EXCEPT ![t] = <<>>]
    /\ patchCompose' = [patchCompose EXCEPT ![t] = <<>>]
    /\ oldImages' = [oldImages EXCEPT ![t] = <<>>]
    /\ rmiArgs' = [rmiArgs EXCEPT ![t] = <<>>]
    /\ localApps' = [localApps EXCEPT ![t] = <<>>]
    /\ UNCHANGED <<dirExists, files, apps, lock>>
    /\ UNCHANGED aux

\* reading the log of an invocation
Has(l, e) == \E i \in 1..Len(l) : l[i] = e
Count(l, e) == Cardinality({i \in 1..Len(l) : l[i] = e})
Precedes(l, e1, e2) ==
    \A i \in 1..Len(l) : l[i] = e2 => \E j \in 1..(i - 1) : l[j] = e1
Failed(l) == \E i \in 1..Len(l) : l[i][1] = "fail"
InFlight(t) == pc[t] \notin {"idle", "done", "error"}

\* frames
Locals == <<compose, patchCompose, oldImages, rmiArgs, localApps>>
World == <<dirExists, files, apps, lock>>
Flag == <<state, lastWriter>>
Who == <<op, target, calls>>

\* ------------------------------------------------- patchComposeServices
\* line 78 completes: the loop patches the descriptor read, and writeCompose
\* (yaml.dump of the patched descriptor, then writeFile) is called
PatchRead(t) ==
    /\ pc[t] = "patchRead"
    /\ \/ /\ dirExists[target[t]]
          /\ patchCompose' = [patchCompose EXCEPT ![t] =
                                  PatchServices(target[t], files[target[t]])]
          /\ Advance(t, "patchWrite", "readCompose", "writeCompose")
       \/ /\ Throw(t, "readCompose")
          /\ UNCHANGED patchCompose
    /\ UNCHANGED <<World, Flag, Who, compose, oldImages, rmiArgs, localApps>>
    /\ UNCHANGED aux

\* the step a method runs once patchComposeServices has resolved
AfterPatch(o) == IF o = "install" THEN "install" ELSE "post-patch-update"
AfterPatchPc(o) == IF o = "install" THEN "installScript" ELSE "postPatch"

\* line 85 completes: the descriptor is on disk, the caller goes on
PatchWrite(t) ==
    /\ pc[t] = "patchWrite"
    /\ \/ /\ dirExists[target[t]]
          /\ files' = [files EXCEPT ![target[t]] = patchCompose[t]]
          /\ Advance(t, AfterPatchPc(op[t]), "writeCompose", AfterPatch(op[t]))
       \/ /\ Throw(t, "writeCompose")
          /\ UNCHANGED files
    /\ UNCHANGED <<dirExists, apps, lock, Flag, Who, Locals>>
    /\ UNCHANGED aux

\* ---------------------------------------------------------------- install
\* install that rolls the flag back when the script fails
InstallScriptRollback(t) ==
    /\ pc[t] = "installScript"
    /\ \/ /\ SetState(t, "ready")
          /\ Return(t, "install")
       \/ /\ Throw(t, "install")
          /\ SetState(t, "unknown")
    /\ UNCHANGED <<World, Who, Locals>>
    /\ UNCHANGED aux

\* line 95 completes
InstallScript(t) ==
    /\ pc[t] = "installScript"
    /\ \/ /\ SetState(t, "ready")
          /\ Return(t, "install")
       \/ /\ Throw(t, "install")
          /\ UNCHANGED Flag
    /\ UNCHANGED <<World, Who, Locals>>
    /\ UNCHANGED aux

\* ----------------------------------------------------------------- update
\* update that patches the descriptor before 'pre-patch-update'
UpdateReadPatchFirst(t) ==
    /\ pc[t] = "updateRead"
    /\ \/ /\ dirExists[target[t]]
          /\ compose' = [compose EXCEPT ![t] = files[target[t]]]
          /\ oldImages' = [oldImages EXCEPT ![t] = OldImagesOf(files[target[t]])]
          /\ Advance(t, "patchRead", "readCompose", "readCompose")
       \/ /\ Throw(t, "readCompose")
          /\ UNCHANGED <<compose, oldImages>>
    /\ UNCHANGED <<World, Flag, Who, patchCompose, rmiArgs, localApps>>
    /\ UNCHANGED aux

\* line 110 completes: oldImages is computed, 'pre-patch-update' is called
UpdateRead(t) ==
    /\ pc[t] = "updateRead"
    /\ \/ /\ dirExists[target[t]]
          /\ compose' = [compose EXCEPT ![t] = files[target[t]]]
          /\ oldImages' = [oldImages EXCEPT ![t] = OldImagesOf(files[target[t]])]
          /\ Advance(t, "prePatch", "readCompose", "pre-patch-update")
       \/ /\ Throw(t, "readCompose")
          /\ UNCHANGED <<compose, oldImages>>
    /\ UNCHANGED <<World, Flag, Who, patchCompose, rmiArgs, localApps>>
    /\ UNCHANGED aux

\* line 116 completes: the script may have put the new release's descriptor
\* in place (the reason the descriptor is patched again half way through);
\* patchComposeServices is called and reads the descriptor
PrePatch(t) ==
    /\ pc[t] = "prePatch"
    /\ \/ /\ \E d \in {files[target[t]], ShippedV2} :
                /\ (d # files[target[t]]) => dirExists[target[t]]
                /\ files' = [files EXCEPT ![target[t]] = d]
          /\ Advance(t, "patchRead", "pre-patch-update", "readCompose")
       \/ /\ Throw(t, "pre-patch-update")
          /\ UNCHANGED files
    /\ UNCHANGED <<dirExists, apps, lock, Flag, Who, Locals>>
    /\ UNCHANGED aux

\* update that removes the images of the descriptor as it is after the patch
RmiArgsCurrent(t) == OldImagesOf(files[target[t]])

\* line 123: the argument list of `docker rmi`
RmiArgs(t) == oldImages[t]

\* line 118 completes: `docker rmi ${oldImages}` is called
PostPatch(t) ==
    /\ pc[t] = "postPatch"
    /\ \/ /\ rmiArgs' = [rmiArgs EXCEPT ![t] = RmiArgs(t)]
          /\ Advance(t, "rmi", "post-patch-update", "rmi")
       \/ /\ Throw(t, "post-patch-update")
          /\ UNCHANGED rmiArgs
    /\ UNCHANGED <<World, Flag, Who, compose, patchCompose, oldImages, localApps>>
    /\ UNCHANGED aux

\* update without the try/catch around `docker rmi`
RmiNoCatch(t) ==
    /\ pc[t] = "rmi"
    /\ \/ /\ SetState(t, "ready")
          /\ Return(t, "rmi")
       \/ /\ Throw(t, "rmi")
          /\ UNCHANGED Flag
    /\ UNCHANGED <<World, Who, Locals>>
    /\ UNCHANGED aux

\* lines 122-128: docker rmi completes or throws into the empty catch
Rmi(t) ==
    /\ pc[t] = "rmi"
    /\ SetState(t, "ready")
    /\ pc' = [pc EXCEPT ![t] = "done"]
    /\ \E r \in {Ok("rmi"), Fail("rmi")} : log' = [log EXCEPT ![t] = Append(@, r)]
    /\ UNCHANGED <<World, Who, Locals>>
    /\ UNCHANGED aux

\* ------------------------------------------------------------ start, stop
\* start that calls the script again when it failed
StartRetry(t) ==
    /\ pc[t] = "start"
    /\ \/ /\ SetState(t, "ready")
          /\ Return(t, "start")
       \/ /\ Count(log[t], Call("start")) < 2
          /\ log' = [log EXCEPT ![t] = @ \o <<Fail("start"), Call("start")>>]
          /\ UNCHANGED <<pc, Flag>>
       \/ /\ Count(log[t], Call("start")) >= 2
          /\ Throw(t, "start")
          /\ UNCHANGED Flag
    /\ UNCHANGED <<World, Who, Locals>>
    /\ UNCHANGED aux

\* start that sets 'ready' only if the flag is still 'starting'
StartGuarded(t) ==
    /\ pc[t] = "start"
    /\ \/ /\ IF state[target[t]] = "starting"
             THEN SetState(t, "ready")
             ELSE UNCHANGED Flag
          /\ Return(t, "start")
       \/ /\ Throw(t, "start")
          /\ UNCHANGED Flag
    /\ UNCHANGED <<World, Who, Locals>>
    /\ UNCHANGED aux

\* line 134 completes
Start(t) ==
    /\ pc[t] = "start"
    /\ \/ /\ SetState(t, "ready")
          /\ Return(t, "start")
       \/ /\ Throw(t, "start")
          /\ UNCHANGED Flag
    /\ UNCHANGED <<World, Who, Locals>>
    /\ UNCHANGED aux

\* stop that ends in 'ready'
StopSetsReady(t) ==
    /\ pc[t] = "stop"
    /\ \/ /\ SetState(t, "ready")
          /\ Return(t, "stop")
       \/ /\ Throw(t, "stop")
          /\ UNCHANGED Flag
    /\ UNCHANGED <<World, Who, Locals>>
    /\ UNCHANGED aux

\* line 142 completes
Stop(t) ==
    /\ pc[t] = "stop"
    /\ \/ /\ SetState(t, "stopped")
          /\ Return(t, "stop")
       \/ /\ Throw(t, "stop")
          /\ UNCHANGED Flag
    /\ UNCHANGED <<World, Who, Locals>>
    /\ UNCHANGED aux

\* ---------------------------------------------------------------- restart
\* restart with the failure of 'stop' swallowed
RestartStopSwallow(t) ==
    /\ pc[t] = "restartStop"
    /\ \/ Advance(t, "restartStart", "stop", "start")
       \/ /\ pc' = [pc EXCEPT ![t] = "restartStart"]
          /\ log' = [log EXCEPT ![t] = @ \o <<Fail("stop"), Call("start")>>]
    /\ UNCHANGED <<World, Flag, Who, Locals>>
    /\ UNCHANGED aux

\* line 150 completes
RestartStop(t) ==
    /\ pc[t] = "restartStop"
    /\ \/ Advance(t, "restartStart", "stop", "start")
       \/ Throw(t, "stop")
    /\ UNCHANGED <<World, Flag, Who, Locals>>
    /\ UNCHANGED aux

\* line 151 completes
RestartStart(t) ==
    /\ pc[t] = "restartStart"
    /\ \/ /\ SetState(t, "ready")
          /\ Return(t, "start")
       \/ /\ Throw(t, "start")
          /\ UNCHANGED Flag
    /\ UNCHANGED <<World, Who, Locals>>
    /\ UNCHANGED aux

\* -------------------------------------------------------------- uninstall
\* uninstall that removes the directory although 'stop' failed
UninstallStopSwallow(t) ==
    /\ pc[t] = "uninstallStop"
    /\ \/ Advance(t, "remove", "stop", "remove")
       \/ /\ pc' = [pc EXCEPT ![t] = "remove"]
          /\ log' = [log EXCEPT ![t] = @ \o <<Fail("stop"), Call("remove")>>]
    /\ UNCHANGED <<World, Flag, Who, Locals>>
    /\ UNCHANGED aux

\* line 159 completes: fse.remove(this.dataDirectory) is called
UninstallStop(t) ==
    /\ pc[t] = "uninstallStop"
    /\ \/ Advance(t, "remove", "stop", "remove")
       \/ Throw(t, "stop")
    /\ UNCHANGED <<World, Flag, Who, Locals>>
    /\ UNCHANGED aux

\* uninstall that reads and writes the list without taking the write lock
RemoveNoLock(t) ==
    /\ pc[t] = "remove"
    /\ \/ /\ dirExists' = [dirExists EXCEPT ![target[t]] = FALSE]
          /\ Advance(t, "get", "remove", "get")
       \/ /\ Throw(t, "remove")
          /\ UNCHANGED dirExists
    /\ UNCHANGED <<files, apps, lock, Flag, Who, Locals>>
    /\ UNCHANGED aux

\* line 160 completes: store.getWriteLock is called
Remove(t) ==
    /\ pc[t] = "remove"
    /\ \/ /\ dirExists' = [dirExists EXCEPT ![target[t]] = FALSE]
          /\ Advance(t, "lockWait", "remove", "getWriteLock")
       \/ /\ Throw(t, "remove")
          /\ UNCHANGED dirExists
    /\ UNCHANGED <<files, apps, lock, Flag, Who, Locals>>
    /\ UNCHANGED aux

\* the store grants the write lock when nobody holds it and runs the
\* callback, which calls get('apps') (line 163)
LockAcquire(t) ==
    /\ pc[t] = "lockWait"
    /\ lock = None
    /\ lock' = t
    /\ Advance(t, "get", "getWriteLock", "get")
    /\ UNCHANGED <<dirExists, files, apps, Flag, Who, Locals>>
    /\ UNCHANGED aux

\* the store releases the lock when the callback has settled
Release(t) == lock' = IF lock = t THEN None ELSE lock

\* uninstall that reads the list in one lock section and writes it after it
GetReleaseEarly(t) ==
    /\ pc[t] = "get"
    /\ \/ /\ localApps' = [localApps EXCEPT ![t] = FilterOut(apps, target[t])]
          /\ Advance(t, "set", "get", "set")
       \/ /\ Throw(t, "get")
          /\ UNCHANGED localApps
    /\ Release(t)
    /\ UNCHANGED <<dirExists, files, apps, Flag, Who, compose, patchCompose,
                   oldImages, rmiArgs>>
    /\ UNCHANGED aux

\* line 163 completes: the list is filtered and set('apps', apps) is called
Get(t) ==
    /\ pc[t] = "get"
    /\ \/ /\ localApps' = [localApps EXCEPT ![t] = FilterOut(apps, target[t])]
          /\ Advance(t, "set", "get", "set")
          /\ UNCHANGED lock
       \/ /\ Throw(t, "get")
          /\ Release(t)
          /\ UNCHANGED localApps
    /\ UNCHANGED <<dirExists, files, apps, Flag, Who, compose, patchCompose,
                   oldImages, rmiArgs>>
    /\ UNCHANGED aux

\* uninstall that ends in 'stopped'
SetThenStopped(t) ==
    /\ pc[t] = "set"
    /\ \/ /\ apps' = localApps[t]
          /\ SetState(t, "stopped")
          /\ Return(t, "set")
       \/ /\ Throw(t, "set")
          /\ UNCHANGED <<apps, Flag>>
    /\ Release(t)
    /\ UNCHANGED <<dirExists, files, Who, Locals>>
    /\ UNCHANGED aux

\* line 165 completes: the callback resolves, the lock is released and
\* uninstall returns true (line 168)
Set(t) ==
    /\ pc[t] = "set"
    /\ \/ /\ apps' = localApps[t]
          /\ Return(t, "set")
       \/ /\ Throw(t, "set")
          /\ UNCHANGED apps
    /\ Release(t)
    /\ UNCHANGED <<dirExists, files, Flag, Who, Locals>>
    /\ UNCHANGED aux

\* -------------------------------------------------------------------- Next
Next ==
    \/ \E t \in Tasks, o \in Ops, a \in AppIds : Invoke(t, o, a)
    \/ \E t \in Tasks : PatchRead(t)
    \/ \E t \in Tasks : PatchWrite(t)
    \/ \E t \in Tasks : InstallScript(t)
    \/ \E t \in Tasks : UpdateRead(t)
    \/ \E t \in Tasks : PrePatch(t)
    \/ \E t \in Tasks : PostPatch(t)
    \/ \E t \in Tasks : Rmi(t)
    \/ \E t \in Tasks : Start(t)
    \/ \E t \in Tasks : Stop(t)
    \/ \E t \in Tasks : RestartStop(t)
    \/ \E t \in Tasks : RestartStart(t)
    \/ \E t \in Tasks : UninstallStop(t)
    \/ \E t \in Tasks : Remove(t)
    \/ \E t \in Tasks : LockAcquire(t)
    \/ \E t \in Tasks : Get(t)
    \/ \E t \in Tasks : Set(t)

Spec == Init /\ [][Next]_vars

TypeOK ==
    /\ state \in [AppIds -> AppState]
    /\ lock \in Tasks \cup {None}
    /\ calls \in 0..MaxCalls

\* ------------------------------------------- the patcher taken on its own
MaxPatchRuns == 2                \* runs of patchComposeServices on one file

\* the descriptors the patcher is given: any services among ServiceNames,
\* each with or without an image and with no, an empty or an explicit name
ImageValues == {None, "", "web:1"}
NameValues == {None, "", "custom", "a1_web_1"}
Descriptors ==
    UNION {[D -> [image : ImageValues, container_name : NameValues]] :
              D \in SUBSET ServiceNames}

PatchInit ==
    /\ LifecycleInit /\ CtorIdle /\ UsageIdle
    /\ patchId \in AppIds
    /\ \E d \in Descriptors : patchRuns = <<d>>

\* patchComposeServices, lines 78-85: the descriptor on disk is read,
\* patched and written back
PatchRun ==
    /\ Len(patchRuns) \in 1..MaxPatchRuns
    /\ patchRuns' = Append(patchRuns, PatchServices(patchId, patchRuns[Len(patchRuns)]))
    /\ UNCHANGED <<lifecycle, patchId, appId, ctor, stdout, total, usage>>

PatchNext == PatchRun

SpecPatch == PatchInit /\ [][PatchNext]_vars

\* --------------------------------------------------------- the constructor
MaxIdLen == 2                    \* length of the appId argument

\* Strings are sequences of character codes here.  The characters an appId
\* is drawn from: space - / 0 9 : A Z ^ _ a z
IdChars == {32, 45, 47, 48, 57, 58, 65, 90, 94, 95, 97, 122}
AppIdInputs == UNION {[1..n -> IdChars] : n \in 0..MaxIdLen}

\* umbreld.dataDirectory: "/d"
UmbreldDataDirectory == <<47, 100>>
\* "/app-data/"
AppDataPath == <<47, 97, 112, 112, 45, 100, 97, 116, 97, 47>>

\* line 49, the class [a-zA-Z0-9-_]: three ranges, then a literal - and _
ClassChar(c) ==
    \/ c \in 97..122
    \/ c \in 65..90
    \/ c \in 48..57
    \/ c = 45
    \/ c = 95

\* the test without its anchors: some character of the class occurs
TestAppIdUnanchored(str) == \E i \in 1..Len(str) : ClassChar(str[i])

\* line 49: /^[a-zA-Z0-9-_]+$/.test(appId)
TestAppId(str) == Len(str) >= 1 /\ \A i \in 1..Len(str) : ClassChar(str[i])

\* lines 44-56: the object with its field initialisers (state, stateProgress),
\* then the constructor body: the throw of line 49 or the assignments of
\* lines 51-55.  `assigned` are the fields the body has assigned, `effects`
\* the calls it has made.
NewApp(dataDirectory, id) ==
    IF ~TestAppId(id)
    THEN [pc |-> "thrown", state |-> "unknown", stateProgress |-> 0,
          assigned |-> {}, id |-> <<>>, dataDirectory |-> <<>>, effects |-> <<>>]
    ELSE [pc |-> "constructed", state |-> "unknown", stateProgress |-> 0,
          assigned |-> {"#umbreld", "id", "dataDirectory", "logger"},
          id |-> id, dataDirectory |-> dataDirectory \o AppDataPath \o id,
          effects |-> <<"createChildLogger">>]

CtorInit ==
    /\ LifecycleInit /\ PatcherIdle /\ UsageIdle
    /\ appId \in AppIdInputs
    /\ ctor = [pc |-> "idle"]

\* new App(umbreld, appId)
Construct ==
    /\ ctor.pc = "idle"
    /\ ctor' = NewApp(UmbreldDataDirectory, appId)
    /\ UNCHANGED <<lifecycle, patchId, patchRuns, appId, stdout, total, usage>>

CtorNext == Construct

SpecCtor == CtorInit /\ [][CtorNext]_vars

\* ------------------------------------------------------- resource usage
MaxLines == 2                    \* lines `docker stats` prints

\* Numbers.  A percentage is counted in hundredths (5.5 is 550), the host's
\* memory in units of 10^6 bytes and a memory usage in units of 100 bytes,
\* so that total * (percentage / 100) is the product of the two counts.
\* NaN is a value of its own, which every sum and product with it yields.
Num(v) == [nan |-> FALSE, v |-> v]
NaN == [nan |-> TRUE, v |-> 0]
Plus(x, y) == IF x.nan \/ y.nan THEN NaN ELSE Num(x.v + y.v)
Times(n, x) == IF x.nan THEN NaN ELSE Num(n * x.v)

\* the percentage texts the engine prints, character by character
Pct1000 == <<"1", "0", ".", "0", "0", "%">>
Pct550 == <<"5", ".", "5", "0", "%">>
Pct5000 == <<"5", "0", ".", "0", "0", "%">>
Pct7500 == <<"7", "5", ".", "0", "%">>
PctNone == <<"-", "-">>
PctEmpty == <<>>
PercTexts == {Pct1000, Pct550, Pct5000, Pct7500, PctNone, PctEmpty}

IsDigit(c) == c \in {"0", "1", "2", "3", "4", "5", "6", "7", "8", "9"}
DigitValue(c) ==
    CASE c = "0" -> 0 [] c = "1" -> 1 [] c = "2" -> 2 [] c = "3" -> 3 [] c = "4" -> 4
      [] c = "5" -> 5 [] c = "6" -> 6 [] c = "7" -> 7 [] c = "8" -> 8 [] c = "9" -> 9

\* the index after the digits that start at index i
RECURSIVE DigitsEnd(_, _)
DigitsEnd(txt, i) ==
    IF i <= Len(txt) /\ IsDigit(txt[i]) THEN DigitsEnd(txt, i + 1) ELSE i

\* the decimal value of the digits txt[i..j-1], after acc
RECURSIVE DigitsValue(_, _, _, _)
DigitsValue(txt, i, j, acc) ==
    IF i >= j THEN acc ELSE DigitsValue(txt, i + 1, j, 10 * acc + DigitValue(txt[i]))

\* Number.parseFloat (lines 183, 194): the longest prefix that is a decimal
\* literal (sign, digits, '.', digits), NaN when there is none; what follows
\* the prefix (the '%') is ignored.  Texts here have at most two decimals.
ParseFloat(txt) ==
    LET signed == Len(txt) >= 1 /\ txt[1] \in {"+", "-"}
        a == IF signed THEN 2 ELSE 1
        b == DigitsEnd(txt, a)
        dot == b <= Len(txt) /\ txt[b] = "."
        c == IF dot THEN DigitsEnd(txt, b + 1) ELSE b
        nFrac == IF dot THEN c - (b + 1) ELSE 0
        whole == DigitsValue(txt, a, b, 0)
        frac == IF nFrac = 0 THEN 0
                ELSE IF nFrac = 1 THEN 10 * DigitValue(txt[b + 1])
                ELSE DigitsValue(txt, b + 1, b + 3, 0)
        magnitude == 100 * whole + frac
    IN IF (b - a) + nFrac = 0 THEN NaN
       ELSE IF signed /\ txt[1] = "-" THEN Num(0 - magnitude)
       ELSE Num(magnitude)

\* a line of the output: a JSON object with the two percentages, or text
\* JSON.parse throws on
Malformed == [json |-> FALSE, MemPerc |-> <<>>, CPUPerc |-> <<>>]
Records == [json : {TRUE}, MemPerc : PercTexts, CPUPerc : PercTexts]
Lines == Records \cup {Malformed}
Outputs == UNION {[1..n -> Lines] : n \in 0..MaxLines}
Totals == {8000, 16000}

\* result.stdout.split('\n') (line 175): an empty output is one empty line
Split(out) == IF out = <<>> THEN <<Malformed>> ELSE out

\* getResourceUsage, lines 174-176, once `docker stats` has printed `out`
GetResourceUsage(out) ==
    IF \E i \in 1..Len(Split(out)) : ~Split(out)[i].json
    THEN [threw |-> TRUE, data |-> <<>>]
    ELSE [threw |-> FALSE, data |-> Split(out)]

\* the loop of lines 181-184
RECURSIVE TotalMemoryPercentage(_, _, _)
TotalMemoryPercentage(containers, i, acc) ==
    IF i > Len(containers) THEN acc
    ELSE TotalMemoryPercentage(containers, i + 1,
                               Plus(acc, ParseFloat(containers[i].MemPerc)))

\* the loop of lines 192-195
RECURSIVE TotalCpuUsage(_, _, _)
TotalCpuUsage(containers, i, acc) ==
    IF i > Len(containers) THEN acc
    ELSE TotalCpuUsage(containers, i + 1, Plus(acc, ParseFloat(containers[i].CPUPerc)))

\* a memory query that keeps the last container's percentage (= for +=)
MemoryOfLast(containers, hostTotal) ==
    Times(hostTotal, IF containers = <<>> THEN Num(0)
                     ELSE ParseFloat(containers[Len(containers)].MemPerc))

\* line 187: total * (totalMemoryPercentage / 100)
MemoryOf(containers, hostTotal) ==
    Times(hostTotal, TotalMemoryPercentage(containers, 1, Num(0)))

\* a CPU query that caps the sum at 100
CpuOfClamped(containers) ==
    LET sum == TotalCpuUsage(containers, 1, Num(0))
    IN IF ~sum.nan /\ sum.v > 10000 THEN Num(10000) ELSE sum

\* line 197
CpuOf(containers) == TotalCpuUsage(containers, 1, Num(0))

UsageInit ==
    /\ LifecycleInit /\ PatcherIdle /\ CtorIdle
    /\ stdout \in Outputs
    /\ total \in Totals
    /\ usage = [pc |-> "idle"]

\* what a query ends with: it threw, or it returned a number
Threw(query, what) == [pc |-> query, error |-> what, result |-> NaN]
Returned(query, x) == [pc |-> query, error |-> None, result |-> x]

\* getMemoryUsage, lines 179-188: `docker stats` fails, or prints stdout
GetMemoryUsage ==
    /\ usage.pc = "idle"
    /\ \/ usage' = Threw("memory", "docker")
       \/ usage' = IF GetResourceUsage(stdout).threw
                   THEN Threw("memory", "JSON.parse")
                   ELSE Returned("memory", MemoryOf(GetResourceUsage(stdout).data, total))
    /\ UNCHANGED <<lifecycle, patchId, patchRuns, appId, ctor, stdout, total>>

\* getCpuUsage, lines 190-198
GetCpuUsage ==
    /\ usage.pc = "idle"
    /\ \/ usage' = Threw("cpu", "docker")
       \/ usage' = IF GetResourceUsage(stdout).threw
                   THEN Threw("cpu", "JSON.parse")
                   ELSE Returned("cpu", CpuOf(GetResourceUsage(stdout).data))
    /\ UNCHANGED <<lifecycle, patchId, patchRuns, appId, ctor, stdout, total>>

UsageNext == GetMemoryUsage \/ GetCpuUsage

SpecUsage == UsageInit /\ [][UsageNext]_vars

\* ------------------------------------------------------------------ claims

\* C1: in every restart(), 'start' is called only after the 'stop' of that
\* restart() has completed successfully; when 'stop' fails, 'start' is never
\* called by that restart() and the restart() rejects.
C1_RestartStopThenStart ==
    \A t \in Tasks : op[t] = "restart" =>
        /\ Precedes(log[t], Ok("stop"), Call("start"))
        /\ Has(log[t], Fail("stop")) =>
               /\ ~Has(log[t], Call("start"))
               /\ pc[t] = "error"

\* one restart has called 'start', another restart's 'stop' has failed
C1_Witness ==
    \E t, u \in Tasks :
        /\ op[t] = "restart" /\ Has(log[t], Call("start"))
        /\ op[u] = "restart" /\ Has(log[u], Fail("stop")) /\ pc[u] = "error"

\* C2 as stated: whenever an awaited step of an operation has failed, the
\* flag is the transient value of that operation (read here in the claim's
\* favour: as long as no other invocation has assigned the flag since).
C2_AnyFailedStepLeavesTransient ==
    \A t \in Tasks :
        (op[t] \in Ops /\ ~InFlight(t) /\ Failed(log[t]) /\ lastWriter[target[t]] = t)
            => state[target[t]] = Transient(op[t])

\* C2 amended: an operation that rejects (any awaited step but the swallowed
\* image removal of update failed) leaves the flag at its transient value,
\* as long as no other invocation on the controller has assigned it since;
\* the image removal is the only step whose failure does not reject.
C2_RejectedLeavesTransient ==
    \A t \in Tasks : op[t] \in Ops =>
        /\ (pc[t] = "error" /\ lastWriter[target[t]] = t)
               => state[target[t]] = Transient(op[t])
        /\ (~InFlight(t) /\ Failed(log[t]))
               => (pc[t] = "error" \/ log[t][Len(log[t])] = Fail("rmi"))

\* an install whose script failed
C2_Witness ==
    \E t \in Tasks :
        /\ op[t] = "install" /\ pc[t] = "error"
        /\ Has(log[t], Fail("install"))
        /\ lastWriter[target[t]] = t
        /\ state[target[t]] = "installing"

\* C3: when two uninstall() calls for different ids have both returned, the
\* list is the initial list without those two ids: neither is left, every
\* other id is still there, in order.
C3_NoLostUpdate ==
    \A t, u \in Tasks :
        (/\ t # u
         /\ op[t] = "uninstall" /\ op[u] = "uninstall"
         /\ pc[t] = "done" /\ pc[u] = "done"
         /\ target[t] # target[u])
            => apps = SelectSeq(InitialApps, LAMBDA x : x \notin {target[t], target[u]})

\* two uninstalls of different ids have returned
C3_Witness ==
    \E t, u \in Tasks :
        /\ op[t] = "uninstall" /\ op[u] = "uninstall"
        /\ pc[t] = "done" /\ pc[u] = "done"
        /\ target[t] # target[u]
        /\ apps = <<OtherId>>

\* C4: the images `docker rmi` is called with are the images of the
\* descriptor update() read before 'pre-patch-update', whatever the
\* descriptor holds by then; the read completes before 'pre-patch-update'
\* is called and the removal is called once 'post-patch-update' completed.
C4_RemovesCapturedImages ==
    \A t \in Tasks : op[t] = "update" =>
        /\ Has(log[t], Call("pre-patch-update")) =>
               /\ SubSeq(log[t], 1, 3) =
                      <<Call("readCompose"), Ok("readCompose"), Call("pre-patch-update")>>
               /\ oldImages[t] = OldImagesOf(compose[t])
        /\ Has(log[t], Call("rmi")) =>
               /\ rmiArgs[t] = OldImagesOf(compose[t])
               /\ Precedes(log[t], Ok("post-patch-update"), Call("rmi"))
               /\ Count(log[t], Call("rmi")) = 1

\* the removal was called, with images the descriptor no longer holds
C4_Witness ==
    \E t \in Tasks :
        /\ op[t] = "update" /\ pc[t] = "done"
        /\ Has(log[t], Call("rmi"))
        /\ rmiArgs[t] = <<"web:1", "db:1">>
        /\ OldImagesOf(files[target[t]]) = <<"web:2">>

\* C5: once 'post-patch-update' has succeeded, update() cannot reject: the
\* step that ends `docker rmi`, succeeding or failing, returns true and
\* leaves state 'ready'.
C5_RmiFailureSwallowed ==
    /\ [](\A t \in Tasks :
            (op[t] = "update" /\ Has(log[t], Ok("post-patch-update"))) =>
                /\ pc[t] \in {"rmi", "done"}
                /\ Failed(log[t]) =>
                       (pc[t] = "done" /\ log[t][Len(log[t])] = Fail("rmi")))
    /\ [][\A t \in Tasks :
            (pc[t] = "rmi" /\ pc'[t] # "rmi") =>
                (pc'[t] = "done" /\ state'[target[t]] = "ready")]_vars

\* an update has returned true although the image removal failed
C5_Witness ==
    \E t \in Tasks :
        /\ op[t] = "update" /\ pc[t] = "done"
        /\ Has(log[t], Fail("rmi"))
        /\ lastWriter[target[t]] = t /\ state[target[t]] = "ready"

\* C6: whoever has a get or a set of the list pending holds the write lock,
\* at most one invocation is between its get and its set, and the list
\* changes only by the set of the lock's holder, to the list it read and
\* filtered under that same lock.
C6_ListMutatedUnderLock ==
    /\ [](/\ \A t \in Tasks : pc[t] \in {"get", "set"} => lock = t
          /\ Cardinality({t \in Tasks : pc[t] \in {"get", "set"}}) <= 1)
    /\ [][apps' # apps =>
            \E t \in Tasks :
                /\ pc[t] = "set" /\ lock = t /\ pc'[t] = "done"
                /\ apps' = localApps[t]
                /\ localApps[t] = FilterOut(apps, target[t])]_vars

\* one uninstall is about to write the list while another waits for the lock
C6_Witness ==
    \E t, u \in Tasks :
        /\ pc[t] = "set" /\ lock = t
        /\ pc[u] = "lockWait" /\ target[u] # target[t]

\* C7: an uninstall() that returned true has run stop, remove, getWriteLock,
\* get and set in this order, each after the one before has completed, and
\* returned with the id off the list and the lock released; uninstall sets
\* state 'uninstalling' before anything else, and a data directory
\* disappears only by an uninstall whose 'stop' has completed.
C7_UninstallOrder ==
    /\ [](\A t \in Tasks : op[t] = "uninstall" =>
            /\ pc[t] = "done" =>
                   /\ log[t] = <<Call("stop"), Ok("stop"), Call("remove"), Ok("remove"),
                                 Call("getWriteLock"), Ok("getWriteLock"),
                                 Call("get"), Ok("get"), Call("set"), Ok("set")>>
                   /\ lock # t
                   /\ target[t] \notin Range(apps)
                   /\ ~dirExists[target[t]]
            /\ Precedes(log[t], Ok("stop"), Call("remove"))
            /\ Precedes(log[t], Ok("remove"), Call("getWriteLock"))
            /\ Precedes(log[t], Ok("getWriteLock"), Call("set")))
    /\ [][\A a \in AppIds :
            (dirExists[a] /\ ~dirExists'[a]) =>
                \E t \in Tasks :
                    /\ op[t] = "uninstall" /\ target[t] = a
                    /\ Has(log[t], Ok("stop")) /\ pc[t] = "remove"]_vars
    /\ [][\A t \in Tasks :
            (pc[t] # "uninstallStop" /\ pc'[t] = "uninstallStop") =>
                (state'[target'[t]] = "uninstalling" /\ log'[t] = <<Call("stop")>>)]_vars

\* an uninstall has returned true
C7_Witness ==
    \E t \in Tasks :
        /\ op[t] = "uninstall" /\ pc[t] = "done"
        /\ Has(log[t], Ok("set"))
        /\ state[target[t]] = "uninstalling"

\* C8: nothing of an invocation runs after a step of it has failed; a
\* failure of any step but the swallowed image removal rejects the
\* invocation; and no external action is called twice by one invocation
\* (restart calls 'stop' and 'start' once each; only update reads the
\* descriptor twice, once for the old images and once to patch).
ExternalSteps == {"install", "pre-patch-update", "post-patch-update", "start", "stop",
                  "rmi", "remove", "writeCompose", "getWriteLock", "get", "set"}

C9_InFlightIsTransient ==
    \A t \in Tasks : InFlight(t) => state[target[t]] = Transient(op[t])

\* C9 amended: the step by which install, update, start or restart returns
\* true leaves state 'ready' and the one by which stop returns true leaves
\* it 'stopped', whatever it was before; while the operation is in flight
\* the flag is its transient value as long as no other invocation on the
\* same controller has assigned it since.
C9_SuccessEndsInDefinedState ==
    /\ [](\A t \in Tasks :
            (InFlight(t) /\ lastWriter[target[t]] = t)
                => state[target[t]] = Transient(op[t]))
    /\ [][\A t \in Tasks :
            (pc[t] # "done" /\ pc'[t] = "done" /\ op[t] # "uninstall") =>
                state'[target[t]] = (IF op[t] = "stop" THEN "stopped" ELSE "ready")]_vars

\* a stop has returned true and left 'stopped', and an update is in flight
\* with the flag at 'updating'
C9_Witness ==
    \E t, u \in Tasks :
        /\ op[t] = "stop" /\ pc[t] = "done" /\ state[target[t]] = "stopped"
        /\ op[u] = "update" /\ InFlight(u) /\ state[target[u]] = "updating"

\* C10: in update() the descriptor is read for patching only once
\* 'pre-patch-update' has completed and 'post-patch-update' is called only
\* once the patched descriptor is written; install() calls 'install' only
\* once it is written; at that moment the file holds the patched
\* descriptor; and every call of an invocation is followed by its own
\* completion before the next call.
C10_PhasesInOrder ==
    /\ [](\A t \in Tasks : op[t] \in Ops =>
            /\ \A i \in 1..Len(log[t]) :
                   /\ (op[t] = "update" /\ i > 1 /\ log[t][i] = Call("readCompose"))
                          => log[t][i - 1] = Ok("pre-patch-update")
                   /\ log[t][i] = Call("writeCompose")
                          => log[t][i - 1] = Ok("readCompose")
                   /\ log[t][i] \in {Call("post-patch-update"), Call("install")}
                          => log[t][i - 1] = Ok("writeCompose")
                   /\ (log[t][i][1] = "call" /\ i < Len(log[t]))
                          => /\ log[t][i + 1][1] \in {"ok", "fail"}
                             /\ log[t][i + 1][2] = log[t][i][2]
            /\ Has(log[t], Call("post-patch-update")) => op[t] = "update"
            /\ Has(log[t], Call("install")) => op[t] = "install")
    /\ [][\A t \in Tasks :
            (pc[t] = "patchWrite" /\ pc'[t] \in {"postPatch", "installScript"}) =>
                /\ files'[target[t]] = patchCompose[t]
                /\ \A sv \in ServiceNames :
                       ~Falsy(files'[target[t]][sv].container_name)]_vars

\* an update has called 'post-patch-update' and an install has called 'install'
C10_Witness ==
    \E t, u \in Tasks :
        /\ op[t] = "update" /\ Has(log[t], Call("post-patch-update"))
        /\ op[u] = "install" /\ Has(log[u], Call("install"))

\* C11: a second run of the patcher leaves the descriptor as the first run
\* left it.
C11_PatchIdempotent ==
    \A i \in 2..(Len(patchRuns) - 1) : patchRuns[i + 1] = patchRuns[i]

\* the patcher ran twice on a descriptor its first run changed
C11_Witness ==
    /\ Len(patchRuns) >= 3
    /\ patchRuns[2] # patchRuns[1]
    /\ \E s \in DOMAIN patchRuns[1] : patchRuns[1][s].container_name = "custom"

\* C12: a run of the patcher keeps the set of services and the image of
\* every service, and keeps the container_name of every service that had
\* a (non-empty) one.
C12_PatchKeepsExplicitNames ==
    \A i \in 1..(Len(patchRuns) - 1) :
        /\ DOMAIN patchRuns[i + 1] = DOMAIN patchRuns[i]
        /\ \A s \in DOMAIN patchRuns[i] :
               /\ patchRuns[i + 1][s].image = patchRuns[i][s].image
               /\ patchRuns[i][s].container_name \notin {None, ""}
                      => patchRuns[i + 1][s].container_name
                            = patchRuns[i][s].container_name

\* the patcher ran on a descriptor with a named service and an unnamed one
C12_Witness ==
    /\ Len(patchRuns) >= 2
    /\ \E s, u \in DOMAIN patchRuns[1] :
           /\ patchRuns[1][s].container_name = "custom"
           /\ patchRuns[2][s].container_name = "custom"
           /\ patchRuns[1][u].container_name = None
           /\ patchRuns[1][u].image = "web:1"

\* C13: a run of the patcher names every service that had no name (none or
\* the empty one) <appId>_<serviceName>_1, and leaves no service without a
\* non-empty name.
C13_PatchNamesUnnamed ==
    \A i \in 1..(Len(patchRuns) - 1) :
        /\ \A s \in DOMAIN patchRuns[i] :
               patchRuns[i][s].container_name \in {None, ""}
                   => patchRuns[i + 1][s].container_name = patchId \o "_" \o s \o "_1"
        /\ \A s \in DOMAIN patchRuns[i + 1] :
               patchRuns[i + 1][s].container_name \notin {None, ""}

\* the patcher named a service without a name and one with the empty name
C13_Witness ==
    /\ Len(patchRuns) >= 2
    /\ patchId = "a2"
    /\ \E s, u \in DOMAIN patchRuns[1] :
           /\ patchRuns[1][s].container_name = None
           /\ patchRuns[1][u].container_name = ""
           /\ patchRuns[2][s].container_name = "a2_" \o s \o "_1"
           /\ patchRuns[2][u].container_name = "a2_" \o u \o "_1"

\* C14: constructing with an appId that is empty or holds a character that
\* is no letter, digit, hyphen or underscore throws, with no field assigned
\* by the constructor and no call made; any other appId yields a controller
\* with state 'unknown', that id and dataDirectory <base>/app-data/<id>.
C14_InvalidIdFailsFirst ==
    ctor.pc # "idle" =>
        LET letters == (97..122) \cup (65..90)
            digits == 48..57
            valid == /\ appId # <<>>
                     /\ \A i \in 1..Len(appId) :
                            appId[i] \in letters \cup digits \cup {45, 95}
        IN /\ ~valid => /\ ctor.pc = "thrown"
                        /\ ctor.assigned = {}
                        /\ ctor.effects = <<>>
           /\ valid => /\ ctor.pc = "constructed"
                       /\ ctor.state = "unknown"
                       /\ ctor.id = appId
                       /\ ctor.dataDirectory = <<47, 100>> \o AppDataPath \o appId

\* the construction with "a/" has thrown
C14_Witness ==
    /\ ctor.pc = "thrown"
    /\ appId = <<97, 47>>

\* the step is made by task t
Moves(t) == pc'[t] # pc[t] \/ log'[t] # log[t]

\* the step is the invocation of an operation on controller a
InvokedOn(a) ==
    \E u \in Tasks : ~InFlight(u) /\ pc'[u] \notin {"idle", "done", "error"} /\ target'[u] = a

\* C15: a step of an operation on one controller changes neither the flag
\* nor the data directory (its existence, its descriptor) of any other
\* controller.
C15_ControllersIndependent ==
    [][\A t \in Tasks : Moves(t) =>
          \A a \in AppIds \ {target'[t]} :
              /\ state'[a] = state[a]
              /\ dirExists'[a] = dirExists[a]
              /\ files'[a] = files[a]]_vars

\* one controller is uninstalled and has dropped its id from the shared
\* list while an update of the other, flag and directory intact, goes on
C15_Witness ==
    \E t, u \in Tasks :
        /\ op[t] = "uninstall" /\ pc[t] = "done" /\ target[t] \notin Range(apps)
        /\ op[u] = "update" /\ pc[u] = "postPatch" /\ target[u] # target[t]
        /\ state[target[u]] = "updating" /\ dirExists[target[u]]
        /\ target[u] \in Range(apps)

\* what the percentage texts stand for, in hundredths; a text that is no
\* number counts zero
PctValue(txt) ==
    CASE txt = Pct1000 -> 1000
      [] txt = Pct550 -> 550
      [] txt = Pct5000 -> 5000
      [] txt = Pct7500 -> 7500
      [] OTHER -> 0
Numeric == {Pct1000, Pct550, Pct5000, Pct7500}

\* the sum of a percentage over the well-formed lines of the output
RECURSIVE SumOfSamples(_, _)
SumOfSamples(out, field) ==
    IF out = <<>> THEN 0
    ELSE SumOfSamples(Tail(out), field)
            + (IF Head(out).json THEN PctValue(Head(out)[field]) ELSE 0)

\* C16: unless the engine query itself fails, a usage query does not fail
\* and returns the aggregate of the well-formed samples, a malformed line
\* or an unparseable percentage counting zero.
C16_MalformedCountsZero ==
    (usage.pc # "idle" /\ usage.error # "docker") =>
        /\ usage.error = None
        /\ ~usage.result.nan
        /\ usage.pc = "cpu" => usage.result.v = SumOfSamples(stdout, "CPUPerc")
        /\ usage.pc = "memory" => usage.result.v = total * SumOfSamples(stdout, "MemPerc")

\* C17: a CPU query that returns, on samples whose CPU percentages are all
\* numbers, returns their sum, whatever its size.
C17_CpuIsUnclampedSum ==
    (/\ usage.pc = "cpu" /\ usage.error = None
     /\ \A i \in 1..Len(stdout) : stdout[i].CPUPerc \in Numeric)
        => /\ ~usage.result.nan
           /\ usage.result.v = SumOfSamples(stdout, "CPUPerc")

\* the samples 50.0 and 75.0 gave 125.0
C17_Witness ==
    /\ usage.pc = "cpu" /\ usage.error = None
    /\ Len(stdout) = 2
    /\ stdout[1].CPUPerc = Pct5000 /\ stdout[2].CPUPerc = Pct7500
    /\ usage.result = Num(12500)

\* C18: a memory query that returns, on samples whose memory percentages are
\* all numbers, returns the host's total times the hundredth of their sum.
C18_MemoryIsTotalTimesSum ==
    (/\ usage.pc = "memory" /\ usage.error = None
     /\ \A i \in 1..Len(stdout) : stdout[i].MemPerc \in Numeric)
        => /\ ~usage.result.nan
           /\ usage.result.v = total * SumOfSamples(stdout, "MemPerc")

\* the samples 10.0 and 5.5 on a host of 16000000000 bytes gave
\* 16000000000 * 0.155 = 2480000000 bytes
C18_Witness ==
    /\ usage.pc = "memory" /\ usage.error = None
    /\ Len(stdout) = 2
    /\ stdout[1].MemPerc = Pct1000 /\ stdout[2].MemPerc = Pct550
    /\ total = 16000
    /\ usage.result = Num(24800000)

\* C19 as stated: the step by which uninstall() returns true leaves the flag
\* at 'uninstalling', and from then on the flag stays 'uninstalling' through
\* every step that is not the invocation of an operation on that controller.
C19_UninstalledStaysUninstalling ==
    [][\A t \in Tasks : op[t] = "uninstall" =>
          /\ (pc[t] = "set" /\ pc'[t] = "done")
                 => state'[target[t]] = "uninstalling"
          /\ (/\ pc[t] = "done" /\ pc'[t] = "done"
              /\ state[target[t]] = "uninstalling"
              /\ ~InvokedOn(target[t]))
                 => state'[target[t]] = "uninstalling"]_vars

\* C19 amended: uninstall() assigns the flag once, 'uninstalling' at its
\* invocation, and no later step of it assigns the flag; so after a
\* successful uninstall() the flag is 'uninstalling' as long as no other
\* invocation on that controller has assigned it since the uninstall() was
\* invoked.
C19_UninstallHasNoCompletionState ==
    /\ [](\A t \in Tasks :
            (op[t] = "uninstall" /\ lastWriter[target[t]] = t)
                => state[target[t]] = "uninstalling")
    /\ [][\A t \in Tasks :
            (op[t] = "uninstall" /\ InFlight(t) /\ Moves(t))
                => /\ state' = state
                   /\ lastWriter' = lastWriter]_vars

\* an uninstall has returned true, nothing else has touched the flag, the
\* directory and the list entry are gone and the flag is 'uninstalling'
C19_Witness ==
    \E t \in Tasks :
        /\ op[t] = "uninstall" /\ pc[t] = "done"
        /\ lastWriter[target[t]] = t
        /\ ~dirExists[target[t]] /\ target[t] \notin Range(apps)
        /\ state[target[t]] = "uninstalling"
        /\ \A u \in Tasks \ {t} : pc[u] = "idle"

\* C20: when an operation returns true on a controller another operation
\* has been invoked on, in flight or not, it sets its completion value
\* whatever the flag was (nothing guards the assignment), and an uninstall
\* leaves the flag as it finds it; so of two operations that have both
\* returned true, the one that assigned the flag last, not being an
\* uninstall, has left its completion value.
C20_LastReturnWins ==
    /\ [][\A t, u \in Tasks :
            (/\ t # u /\ target[u] = target[t] /\ op[u] \in Ops
             /\ InFlight(t) /\ pc'[t] = "done")
                => state'[target[t]] =
                      (IF op[t] = "uninstall" THEN state[target[t]]
                       ELSE Completion(op[t]))]_vars
    /\ [](\A t, u \in Tasks :
            (/\ t # u /\ target[u] = target[t]
             /\ pc[t] = "done" /\ pc[u] = "done"
             /\ op[t] # "uninstall" /\ lastWriter[target[t]] = t)
                => state[target[t]] = Completion(op[t]))

\* a start that was in flight while an uninstall ran to completion has left
\* 'ready' for an application without directory and list entry
C20_Witness ==
    \E t, u \in Tasks :
        /\ op[t] = "start" /\ pc[t] = "done"
        /\ op[u] = "uninstall" /\ pc[u] = "done" /\ target[u] = target[t]
        /\ state[target[t]] = "ready"
        /\ ~dirExists[target[t]] /\ target[t] \notin Range(apps)

=============================================================================
